---- MODULE Spec2Model ----
(***************************************************************************)
(* Control plane of the provisioning service: the node pool, the user      *)
(* tracker, the allocator, the predictor and the provisioner's event       *)
(* handlers and reconciliation tick.                                       *)
(*                                                                         *)
(* Time is an integer clock `now`; a time.Time field holds a clock value   *)
(* or ZeroTime (Go's zero time.Time, earlier than every clock value).      *)
(* The node-lifecycle API is the environment: a provision call either      *)
(* fails or returns an identifier the API has not handed out before, a     *)
(* terminate call either fails or succeeds.                                *)
(***************************************************************************)
EXTENDS Integers, FiniteSets, Sequences, TLC

\* ------------------------------------------------------------------ bounds
NodeIds == {"n1", "n2"}
UserIds == {"u1", "u2"}
Workers == {"w1", "w2"}
\* the clock is read at multiples of ClockStep, MaxClockSteps of them at most
ClockStep == 2
MaxClockSteps == 1
\* a predictor call under study reads counts up to MaxCount and a configuration
\* with min_ready_nodes and max_ready_nodes up to MaxConfig
MaxCount == 3
MaxConfig == 3
\* a pool or a tracker under study holds timestamps 0..MaxDrawTime and activity
\* counts up to MaxDrawCount
MaxDrawTime == 3
MaxDrawCount == 2

\* ----------------------------------------------------- configuration values
\* (positive, as config.setDefaults leaves them, and shorter than a clock step)
ActivityWindow == 1
ActivityThreshold == 1
MinReadyNodes == 1
MaxReadyNodes == 1
IdleTerminationTimeout == 1
BootingNodeTimeout == 1
\* the activity counter is followed up to the threshold the predictor compares it to
MaxActivity == ActivityThreshold

\* ------------------------------------------------------------------- values
ZeroTime == 0 - 100
NodeStatusBooting == "booting"
NodeStatusReady == "ready"
NodeStatusAllocated == "allocated"
NodeStatusTerminated == "terminated"
NodeStatus == {NodeStatusBooting, NodeStatusReady, NodeStatusAllocated, NodeStatusTerminated}
\* the statuses a node:status payload carries
EventStatus == {NodeStatusBooting, NodeStatusReady, NodeStatusTerminated}

ErrNoReadyNode == "ErrNoReadyNode"
ErrUserNotFound == "ErrUserNotFound"
ErrNodeNotFound == "ErrNodeNotFound"
ErrNodeNotReady == "ErrNodeNotReady"
ErrAlreadyAllocated == "ErrAlreadyAllocated"
Nil == "nil"

VARIABLES
  nodes,    \* NodePool.nodes: node id -> Node
  users,    \* UserTracker.users: user id -> UserState
  now,      \* the wall clock
  issued,   \* identifiers the node-lifecycle API has handed out or reported
  tickPc,   \* position of the reconciliation loop inside a tick
  last,     \* the operation that ran last, what it returned and the calls it made
  conn,     \* connect handlers in flight: worker -> position and locals
  life,     \* the process: "running", "stopping" (fx is running the OnStop hooks), "exited"
  calc,     \* the call under study: its inputs, its locals and what it returned
  pending   \* provisioned nodes whose node:status ready report is still to come

vars == <<nodes, users, now, issued, tickPc, last, conn, life, calc, pending>>

\* ---------------------------------------------------------------- Node pool
Node(status, userID, createdAt, updatedAt) ==
  [Status |-> status, UserID |-> userID, CreatedAt |-> createdAt, UpdatedAt |-> updatedAt]

NewNodePool == <<>>

Add(p, id, n) == [i \in (DOMAIN p) \cup {id} |-> IF i = id THEN n ELSE p[i]]

Remove(p, id) == [i \in (DOMAIN p) \ {id} |-> p[i]]

GetAllByStatus(p, status) == {i \in DOMAIN p : p[i].Status = status}

CountByStatus(p, status) == Cardinality(GetAllByStatus(p, status))

Count(p) == Cardinality(DOMAIN p)

\* GetReadyNode returns the first ready node of a map iteration: any ready node
GetReadyNode(p) == GetAllByStatus(p, NodeStatusReady)

\* (variant: the status test left out)
AllocateNodeOkAnyStatus(p, id) == id \in DOMAIN p

\* the test AllocateNode makes under the pool lock
AllocateNodeOk(p, id) == id \in DOMAIN p /\ p[id].Status = NodeStatusReady

AllocateNode(p, id, userID, t) ==
  IF AllocateNodeOk(p, id)
  THEN [p EXCEPT ![id] = [@ EXCEPT !.Status = NodeStatusAllocated, !.UserID = userID, !.UpdatedAt = t]]
  ELSE p

\* (variant: the released node terminated)
DeallocateNodeTerminates(p, id, t) ==
  IF id \in DOMAIN p
  THEN [p EXCEPT ![id] = [@ EXCEPT !.Status = NodeStatusTerminated, !.UserID = "", !.UpdatedAt = t]]
  ELSE p

\* (variant: the released node left allocated)
DeallocateNodeKeepsStatus(p, id, t) ==
  IF id \in DOMAIN p
  THEN [p EXCEPT ![id] = [@ EXCEPT !.UserID = "", !.UpdatedAt = t]]
  ELSE p

DeallocateNode(p, id, t) ==
  IF id \in DOMAIN p
  THEN [p EXCEPT ![id] = [@ EXCEPT !.Status = NodeStatusReady, !.UserID = "", !.UpdatedAt = t]]
  ELSE p

\* (variant: the record dropped instead of updated)
UpdateStatusRemoves(p, id, status, t) == [i \in (DOMAIN p) \ {id} |-> p[i]]

UpdateStatus(p, id, status, t) ==
  IF id \in DOMAIN p
  THEN [p EXCEPT ![id] = [@ EXCEPT !.Status = status, !.UpdatedAt = t]]
  ELSE p

\* -------------------------------------------------------------- User tracker
UserState(lastActivityTime, activityCount, isConnected, allocatedNodeID) ==
  [LastActivityTime |-> lastActivityTime, ActivityCount |-> activityCount,
   IsConnected |-> isConnected, AllocatedNodeID |-> allocatedNodeID]

NewUserTracker == <<>>

RecordActivity(us, u, ts) ==
  IF u \notin DOMAIN us
  THEN [i \in (DOMAIN us) \cup {u} |-> IF i = u THEN UserState(ts, 1, FALSE, "") ELSE us[i]]
  ELSE [us EXCEPT ![u] = [@ EXCEPT !.LastActivityTime = ts, !.ActivityCount = @ + 1]]

MarkConnected(us, u, nodeID) ==
  LET base == IF u \in DOMAIN us THEN us[u] ELSE UserState(ZeroTime, 0, FALSE, "")
  IN  [i \in (DOMAIN us) \cup {u} |->
         IF i = u THEN [base EXCEPT !.IsConnected = TRUE, !.AllocatedNodeID = nodeID]
         ELSE us[i]]

\* (variant: the connected flag left set)
MarkDisconnectedKeepsFlag(us, u) ==
  IF u \in DOMAIN us
  THEN [us EXCEPT ![u] = [@ EXCEPT !.AllocatedNodeID = ""]]
  ELSE us

MarkDisconnected(us, u) ==
  IF u \in DOMAIN us
  THEN [us EXCEPT ![u] = [@ EXCEPT !.IsConnected = FALSE, !.AllocatedNodeID = ""]]
  ELSE us

\* LastActivityTime.After(now - within)
GetLikelyToConnect(us, threshold, within, t) ==
  {u \in DOMAIN us : /\ ~us[u].IsConnected
                     /\ us[u].LastActivityTime > t - within
                     /\ us[u].ActivityCount >= threshold}

GetConnectedUsers(us) == {u \in DOMAIN us : us[u].IsConnected}

\* ---------------------------------------------------------------- Allocator
AllocResult(p, us, id, err) == [nodes |-> p, users |-> us, id |-> id, err |-> err]

\* (variant: the bound-node test inverted)
AlreadyAllocatedInverted(us, u) ==
  u \in DOMAIN us /\ us[u].IsConnected /\ us[u].AllocatedNodeID = ""

\* the check at the top of AllocateNodeToUser
AlreadyAllocated(us, u) ==
  u \in DOMAIN us /\ us[u].IsConnected /\ us[u].AllocatedNodeID # ""

\* AllocateNodeToUser after GetReadyNode returned node id
AllocatePicked(p, us, u, id, t) ==
  IF ~AllocateNodeOk(p, id)
  THEN AllocResult(p, us, "", ErrNodeNotReady)
  ELSE AllocResult(AllocateNode(p, id, u, t), MarkConnected(us, u, id), id, Nil)

\* the possible results of AllocateNodeToUser run without interruption
AllocateNodeToUser(p, us, u, t) ==
  IF AlreadyAllocated(us, u)
  THEN {AllocResult(p, us, us[u].AllocatedNodeID, ErrAlreadyAllocated)}
  ELSE IF GetReadyNode(p) = {}
  THEN {AllocResult(p, us, "", ErrNoReadyNode)}
  ELSE {AllocatePicked(p, us, u, id, t) : id \in GetReadyNode(p)}

DeallocateNodeFromUser(p, us, u, t) ==
  IF u \notin DOMAIN us \/ ~us[u].IsConnected
  THEN AllocResult(p, us, "", ErrUserNotFound)
  ELSE IF us[u].AllocatedNodeID = ""
  THEN AllocResult(p, us, "", ErrNodeNotFound)
  ELSE AllocResult(DeallocateNode(p, us[u].AllocatedNodeID, t), MarkDisconnected(us, u),
                   us[u].AllocatedNodeID, Nil)

\* ---------------------------------------------------------------- Predictor
ScalingDecision(up, down, target, reason) ==
  [ShouldScaleUp |-> up, ShouldScaleDown |-> down, TargetNodes |-> target, Reason |-> reason]

\* (variant: the minimum tested against the ready nodes alone)
ScaleUpNeedReadyOnly(readyCount, bootingCount, demand, minReady) ==
  LET availableCapacity == readyCount + bootingCount
  IN  IF demand > availableCapacity
      THEN ScalingDecision(TRUE, FALSE, demand - availableCapacity, "demand exceeds capacity")
      ELSE IF readyCount < minReady
      THEN ScalingDecision(TRUE, FALSE, minReady - readyCount, "maintaining minimum ready nodes")
      ELSE ScalingDecision(FALSE, FALSE, 0, "")

\* CalculateScaling, the scale-up rule: demand against ready + booting, then the
\* minimum of ready nodes
ScaleUpNeed(readyCount, bootingCount, demand, minReady) ==
  LET availableCapacity == readyCount + bootingCount
  IN  IF demand > availableCapacity
      THEN ScalingDecision(TRUE, FALSE, demand - availableCapacity, "demand exceeds capacity")
      ELSE IF readyCount < minReady /\ (readyCount + bootingCount) < minReady
      THEN ScalingDecision(TRUE, FALSE, minReady - (readyCount + bootingCount),
                           "maintaining minimum ready nodes")
      ELSE ScalingDecision(FALSE, FALSE, 0, "")

\* (variant: a capped target of zero keeps the scale-up)
CapScaleUpKeepsZero(d, readyCount, bootingCount, allocatedCount, maxReady) ==
  LET totalNodes == readyCount + bootingCount + allocatedCount + d.TargetNodes
      capped == maxReady - (readyCount + bootingCount + allocatedCount)
  IN  IF d.ShouldScaleUp /\ totalNodes > maxReady
      THEN [d EXCEPT !.TargetNodes = capped, !.ShouldScaleUp = ~(capped < 0)]
      ELSE d

\* CalculateScaling, the cap of a scale-up to MaxReadyNodes
CapScaleUp(d, readyCount, bootingCount, allocatedCount, maxReady) ==
  LET totalNodes == readyCount + bootingCount + allocatedCount + d.TargetNodes
      capped == maxReady - (readyCount + bootingCount + allocatedCount)
  IN  IF d.ShouldScaleUp /\ totalNodes > maxReady
      THEN [d EXCEPT !.TargetNodes = capped, !.ShouldScaleUp = ~(capped <= 0)]
      ELSE d

\* (variant: the demand test left out)
ScaleDownWhateverDemand(d, readyCount, demand, minReady) ==
  LET excessNodes == readyCount - minReady
  IN  IF excessNodes > 0
      THEN [d EXCEPT !.ShouldScaleDown = TRUE, !.TargetNodes = excessNodes,
                     !.Reason = "excess capacity with no demand"]
      ELSE d

\* CalculateScaling, the scale-down rule
ScaleDown(d, readyCount, demand, minReady) ==
  LET excessNodes == readyCount - minReady
  IN  IF excessNodes > 0 /\ demand = 0
      THEN [d EXCEPT !.ShouldScaleDown = TRUE, !.TargetNodes = excessNodes,
                     !.Reason = "excess capacity with no demand"]
      ELSE d

\* the decision logic of CalculateScaling on the counts it reads
ScalingFor(readyCount, bootingCount, allocatedCount, demand, minReady, maxReady) ==
  ScaleDown(CapScaleUp(ScaleUpNeed(readyCount, bootingCount, demand, minReady),
                       readyCount, bootingCount, allocatedCount, maxReady),
            readyCount, demand, minReady)

\* (variant: connected users counted too)
DemandCountingConnected(us, t) ==
  Cardinality({u \in DOMAIN us : /\ us[u].LastActivityTime > t - ActivityWindow
                                 /\ us[u].ActivityCount >= ActivityThreshold})

\* demand := len(likelyUsers)
Demand(us, t) == Cardinality(GetLikelyToConnect(us, ActivityThreshold, ActivityWindow, t))

CalculateScaling(p, us, t) ==
  ScalingFor(CountByStatus(p, NodeStatusReady), CountByStatus(p, NodeStatusBooting),
             CountByStatus(p, NodeStatusAllocated), Demand(us, t),
             MinReadyNodes, MaxReadyNodes)

\* (variant: a node exactly at the cutoff counted as idle)
IdleCandidatesAtCutoff(p, t) ==
  {i \in GetAllByStatus(p, NodeStatusReady) : p[i].UpdatedAt <= t - IdleTerminationTimeout}

\* ready nodes with UpdatedAt.Before(now - IdleTerminationTimeout)
IdleCandidates(p, t) ==
  {i \in GetAllByStatus(p, NodeStatusReady) : p[i].UpdatedAt < t - IdleTerminationTimeout}

\* (variant: the floor of MinReadyNodes left out)
MaxTerminationsNoFloor(p) == CountByStatus(p, NodeStatusReady)

MaxTerminations(p) ==
  IF CountByStatus(p, NodeStatusReady) - MinReadyNodes < 0 THEN 0
  ELSE CountByStatus(p, NodeStatusReady) - MinReadyNodes

\* GetIdleNodes truncates the idle nodes, listed in map order, to maxTerminations:
\* every subset of that size is a possible result
GetIdleNodes(p, t) ==
  LET idle == IdleCandidates(p, t)
      k == IF Cardinality(idle) > MaxTerminations(p) THEN MaxTerminations(p) ELSE Cardinality(idle)
  IN  {S \in SUBSET idle : Cardinality(S) = k}

\* (variant: the age taken from UpdatedAt)
GetStuckBootingNodesByUpdate(p, t) ==
  {i \in GetAllByStatus(p, NodeStatusBooting) : p[i].UpdatedAt < t - BootingNodeTimeout}

GetStuckBootingNodes(p, t) ==
  {i \in GetAllByStatus(p, NodeStatusBooting) : p[i].CreatedAt < t - BootingNodeTimeout}

\* -------------------------------------------------------------- Provisioner
Last(op, user, id, err, ret, prov, term) ==
  [op |-> op, user |-> user, id |-> id, err |-> err, ret |-> ret, prov |-> prov, term |-> term]

\* a sequential run records its last operation; an interleaved run does not
Record(rec, l) == last' = IF rec THEN l ELSE last

IdleConn == [pc |-> "idle", user |-> "", node |-> "", err |-> Nil]

\* NodeManager.ProvisionNode: an error ("") or an identifier the API never used
ProvisionNode(iss) == {""} \cup (NodeIds \ iss)

\* (variant: the node inserted as ready)
provisionNodeReady(p, r, t) ==
  IF r = "" THEN p ELSE Add(p, r, Node(NodeStatusReady, "", t, t))

\* provisionNode once the API call returned r
provisionNode(p, r, t) ==
  IF r = "" THEN p ELSE Add(p, r, Node(NodeStatusBooting, "", t, t))

RECURSIVE provisionEach(_, _, _)
provisionEach(p, S, t) ==
  IF S = {} THEN p
  ELSE LET r == CHOOSE x \in S : TRUE IN provisionEach(provisionNode(p, r, t), S \ {r}, t)

RECURSIVE UpdateStatusEach(_, _, _, _)
UpdateStatusEach(p, S, status, t) ==
  IF S = {} THEN p
  ELSE LET i == CHOOSE x \in S : TRUE
       IN  UpdateStatusEach(UpdateStatus(p, i, status, t), S \ {i}, status, t)

RECURSIVE RemoveEach(_, _)
RemoveEach(p, S) ==
  IF S = {} THEN p
  ELSE LET i == CHOOSE x \in S : TRUE IN RemoveEach(Remove(p, i), S \ {i})

\* no predictor call is under study
NoCalc == [op |-> "none"]

Quiescent == tickPc = "idle" /\ \A w \in Workers : conn[w].pc = "idle"

Init ==
  /\ nodes = NewNodePool
  /\ users = NewUserTracker
  /\ now = 0
  /\ issued = {}
  /\ tickPc = "idle"
  /\ last = Last("init", "", "", Nil, Nil, 0, 0)
  /\ conn = [w \in Workers |-> IdleConn]
  /\ life = "running"
  /\ pending = {}
  /\ calc = NoCalc

\* the clock moves on
AdvanceTime(rec) ==
  /\ now < MaxClockSteps * ClockStep
  /\ now' = now + ClockStep
  /\ Record(rec, Last("advance", "", "", Nil, Nil, 0, 0))
  /\ UNCHANGED <<pending, life, calc, nodes, users, issued, tickPc, conn>>

HandleUserActivity(u, ts) ==
  /\ u \in DOMAIN users => users[u].ActivityCount < MaxActivity
  /\ users' = RecordActivity(users, u, ts)
  /\ last' = Last("activity", u, "", Nil, Nil, 0, 0)
  /\ UNCHANGED <<pending, life, calc, nodes, now, issued, tickPc, conn>>

\* the error HandleUserConnect returns for the allocator's error
ConnectReturn(err) == IF err = ErrAlreadyAllocated THEN Nil ELSE err

HandleUserConnect(u) ==
  \E o \in AllocateNodeToUser(nodes, users, u, now) :
    IF o.err = ErrNoReadyNode
    THEN \E r \in ProvisionNode(issued) :
           /\ nodes' = provisionNode(o.nodes, r, now)
           /\ users' = o.users
           /\ issued' = issued \cup ({r} \ {""})
           /\ last' = Last("connect", u, o.id, o.err, ConnectReturn(o.err), 1, 0)
           /\ UNCHANGED <<pending, life, calc, now, tickPc, conn>>
    ELSE /\ nodes' = o.nodes
         /\ users' = o.users
         /\ last' = Last("connect", u, o.id, o.err, ConnectReturn(o.err), 0, 0)
         /\ UNCHANGED <<pending, life, calc, now, issued, tickPc, conn>>

HandleUserDisconnect(u, rec) ==
  LET r == DeallocateNodeFromUser(nodes, users, u, now)
  IN  /\ nodes' = r.nodes
      /\ users' = r.users
      /\ Record(rec, Last("disconnect", u, r.id, r.err, r.err, 0, 0))
      /\ UNCHANGED <<pending, life, calc, now, issued, tickPc, conn>>

\* the pool after HandleNodeStatus handled {n, status} at clock reading t
NodeStatusPool(p, n, status, t) ==
  IF n \notin DOMAIN p
  THEN Add(p, n, Node(status, "", t, t))
  ELSE UpdateStatus(p, n, status, t)

HandleNodeStatus(n, status, rec) ==
  /\ nodes' = NodeStatusPool(nodes, n, status, now)
  /\ issued' = issued \cup {n}
  /\ Record(rec, Last("nodeStatus", "", n, Nil, Nil, 0, 0))
  /\ UNCHANGED <<pending, life, calc, users, now, tickPc, conn>>

\* (variant: one call whatever the decision)
ScaleUpCallsUnconditional(d) == 1

\* the number of provision calls of performScalingCheck
ScaleUpCalls(d) == IF d.ShouldScaleUp /\ d.TargetNodes > 0 THEN d.TargetNodes ELSE 0

\* performScalingCheck once CalculateScaling returned decision d
performScalingCheckFor(d, rec) ==
  /\ tickPc = "idle"
  /\ LET k == ScaleUpCalls(d)
     IN  \E F \in SUBSET (NodeIds \ issued) :
           /\ Cardinality(F) <= k
           /\ nodes' = provisionEach(nodes, F, now)
           /\ issued' = issued \cup F
           /\ Record(rec, Last("performScalingCheck", "", "", Nil, Nil, k, 0))
  /\ tickPc' = "cleanupIdle"
  /\ UNCHANGED <<pending, life, calc, users, now, conn>>

performScalingCheck(rec) == performScalingCheckFor(CalculateScaling(nodes, users, now), rec)

cleanupIdleNodes(rec) ==
  /\ tickPc = "cleanupIdle"
  /\ \E idleNodes \in GetIdleNodes(nodes, now) :
       \E ok \in SUBSET idleNodes :
         /\ nodes' = UpdateStatusEach(nodes, ok, NodeStatusTerminated, now)
         /\ Record(rec, Last("cleanupIdleNodes", "", "", Nil, Nil, 0, Cardinality(idleNodes)))
  /\ tickPc' = "cleanupStuck"
  /\ UNCHANGED <<pending, life, calc, users, now, issued, conn>>

\* (variant: a node whose terminate call failed marked terminated)
cleanupStuckNodesMarksFailed(rec) ==
  /\ tickPc = "cleanupStuck"
  /\ LET stuckNodes == GetStuckBootingNodes(nodes, now)
     IN  \E ok \in SUBSET stuckNodes :
           /\ nodes' = UpdateStatusEach(RemoveEach(nodes, ok), stuckNodes \ ok,
                                        NodeStatusTerminated, now)
           /\ Record(rec, Last("cleanupStuckNodes", "", "", Nil, Nil, 0, Cardinality(stuckNodes)))
  /\ tickPc' = "idle"
  /\ UNCHANGED <<pending, life, calc, users, now, issued, conn>>

cleanupStuckNodes(rec) ==
  /\ tickPc = "cleanupStuck"
  /\ LET stuckNodes == GetStuckBootingNodes(nodes, now)
     IN  \E ok \in SUBSET stuckNodes :
           /\ nodes' = RemoveEach(nodes, ok)
           /\ Record(rec, Last("cleanupStuckNodes", "", "", Nil, Nil, 0, Cardinality(stuckNodes)))
  /\ tickPc' = "idle"
  /\ UNCHANGED <<pending, life, calc, users, now, issued, conn>>

\* The event consumer and the reconciliation loop, one operation at a time: an
\* event is handled, the clock moves and a tick starts only between operations.
UserActivity == Quiescent /\ \E u \in UserIds : HandleUserActivity(u, now)

UserConnect == Quiescent /\ \E u \in UserIds : HandleUserConnect(u)

UserDisconnect == Quiescent /\ \E u \in UserIds : HandleUserDisconnect(u, TRUE)

NodeStatusEvent ==
  Quiescent /\ \E n \in NodeIds, status \in EventStatus : HandleNodeStatus(n, status, TRUE)

TickScalingCheck == Quiescent /\ performScalingCheck(TRUE)

TickCleanupIdle == cleanupIdleNodes(TRUE)

TickCleanupStuck == cleanupStuckNodes(TRUE)

Clock == Quiescent /\ AdvanceTime(TRUE)

Next ==
  \/ UserActivity
  \/ UserConnect
  \/ UserDisconnect
  \/ NodeStatusEvent
  \/ TickScalingCheck
  \/ TickCleanupIdle
  \/ TickCleanupStuck
  \/ Clock

Spec == Init /\ [][Next]_vars

\* ------------------------------------------------ messages handled back to back
\* The consumer handles user:connect{u} and then user:disconnect{u}, nothing else
\* running in between.
ConnectThenDisconnect ==
  /\ Quiescent
  /\ \E u \in UserIds :
       \E o \in AllocateNodeToUser(nodes, users, u, now) :
         \E r \in (IF o.err = ErrNoReadyNode THEN ProvisionNode(issued) ELSE {""}) :
           LET d == DeallocateNodeFromUser(provisionNode(o.nodes, r, now), o.users, u, now)
           IN  /\ nodes' = d.nodes
               /\ users' = d.users
               /\ issued' = issued \cup ({r} \ {""})
               /\ last' = Last("connectDisconnect", u, o.id, o.err, d.err,
                               IF o.err = ErrNoReadyNode THEN 1 ELSE 0, 0)
  /\ UNCHANGED <<pending, life, calc, now, tickPc, conn>>

\* The consumer handles node:status{n, status} twice in a row; each handling
\* reads the clock, which may have moved on in between.
NodeStatusTwice ==
  /\ Quiescent
  /\ \E n \in NodeIds, status \in EventStatus :
       \E t \in {now} \cup (IF now < MaxClockSteps * ClockStep THEN {now + ClockStep} ELSE {}) :
         /\ nodes' = NodeStatusPool(NodeStatusPool(nodes, n, status, now), n, status, t)
         /\ now' = t
         /\ issued' = issued \cup {n}
         /\ last' = Last("nodeStatusTwice", "", n, Nil, Nil, 0, 0)
  /\ UNCHANGED <<pending, life, calc, users, tickPc, conn>>

NextSeq ==
  \/ UserActivity
  \/ UserConnect
  \/ UserDisconnect
  \/ NodeStatusEvent
  \/ TickScalingCheck
  \/ TickCleanupIdle
  \/ TickCleanupStuck
  \/ Clock
  \/ ConnectThenDisconnect
  \/ NodeStatusTwice

SpecSeq == Init /\ [][NextSeq]_vars

\* ------------------------------------------------- concurrent connect handlers
\* HandleUserConnect / AllocateNodeToUser one lock acquisition at a time, run by
\* callers that share the pool and the tracker with each other and with the tick.
SetConn(w, pc, user, node, err) ==
  conn' = [conn EXCEPT ![w] = [pc |-> pc, user |-> user, node |-> node, err |-> err]]

\* GetUserState and the already-allocated check
ConnectCheck(w, u) ==
  /\ conn[w].pc = "idle"
  /\ IF AlreadyAllocated(users, u)
     THEN SetConn(w, "idle", "", "", ErrAlreadyAllocated)
     ELSE SetConn(w, "getReadyNode", u, "", Nil)
  /\ UNCHANGED <<pending, life, calc, nodes, users, now, issued, tickPc, last>>

ConnectGetReadyNode(w) ==
  /\ conn[w].pc = "getReadyNode"
  /\ IF GetReadyNode(nodes) = {}
     THEN SetConn(w, "provision", conn[w].user, "", ErrNoReadyNode)
     ELSE \E id \in GetReadyNode(nodes) : SetConn(w, "allocateNode", conn[w].user, id, Nil)
  /\ UNCHANGED <<pending, life, calc, nodes, users, now, issued, tickPc, last>>

ConnectAllocateNode(w) ==
  /\ conn[w].pc = "allocateNode"
  /\ nodes' = AllocateNode(nodes, conn[w].node, conn[w].user, now)
  /\ IF AllocateNodeOk(nodes, conn[w].node)
     THEN SetConn(w, "markConnected", conn[w].user, conn[w].node, Nil)
     ELSE SetConn(w, "idle", "", "", ErrNodeNotReady)
  /\ UNCHANGED <<pending, life, calc, users, now, issued, tickPc, last>>

ConnectMarkConnected(w) ==
  /\ conn[w].pc = "markConnected"
  /\ users' = MarkConnected(users, conn[w].user, conn[w].node)
  /\ SetConn(w, "idle", "", "", Nil)
  /\ UNCHANGED <<pending, life, calc, nodes, now, issued, tickPc, last>>

\* the emergency provision: the outbound call, then the insertion
ConnectProvision(w) ==
  /\ conn[w].pc = "provision"
  /\ \E r \in ProvisionNode(issued) :
       /\ issued' = issued \cup ({r} \ {""})
       /\ IF r = ""
          THEN SetConn(w, "idle", "", "", ErrNoReadyNode)
          ELSE SetConn(w, "add", conn[w].user, r, ErrNoReadyNode)
  /\ UNCHANGED <<pending, life, calc, nodes, users, now, tickPc, last>>

ConnectAdd(w) ==
  /\ conn[w].pc = "add"
  /\ nodes' = provisionNode(nodes, conn[w].node, now)
  /\ SetConn(w, "idle", "", "", ErrNoReadyNode)
  /\ UNCHANGED <<pending, life, calc, users, now, issued, tickPc, last>>

Connect(w) ==
  \/ \E u \in UserIds : ConnectCheck(w, u)
  \/ ConnectGetReadyNode(w)
  \/ ConnectAllocateNode(w)
  \/ ConnectMarkConnected(w)
  \/ ConnectProvision(w)
  \/ ConnectAdd(w)

\* The program's two goroutines: the event consumer, which runs one handler at a
\* time (a connect handler step by step), and the reconciliation loop.
Consumer == "w1"

ConsumerEvent ==
  /\ conn[Consumer].pc = "idle"
  /\ \/ \E u \in UserIds : HandleUserDisconnect(u, FALSE)
     \/ \E n \in NodeIds, status \in EventStatus : HandleNodeStatus(n, status, FALSE)

TickConc == performScalingCheck(FALSE) \/ cleanupIdleNodes(FALSE) \/ cleanupStuckNodes(FALSE)

NextConc == Connect(Consumer) \/ ConsumerEvent \/ TickConc \/ AdvanceTime(FALSE)

SpecConc == Init /\ [][NextConc]_vars

\* Several callers of the allocator at once (a worker pool of connect handlers);
\* the other events are handled between them.
AllocEvent ==
  /\ \A w \in Workers : conn[w].pc = "idle"
  /\ \/ \E u \in UserIds : HandleUserDisconnect(u, FALSE)
     \/ \E n \in NodeIds, status \in EventStatus : HandleNodeStatus(n, status, FALSE)

NextAlloc == (\E w \in Workers : Connect(w)) \/ AllocEvent

SpecAlloc == Init /\ [][NextAlloc]_vars

\* ------------------------------------------------------------------ shutdown
\* fx receives the termination signal and runs the OnStop hooks (HTTP server,
\* Redis client). The provisioner and the subscriber register no OnStop hook and
\* were started with context.Background(), whose Done channel never fires: the
\* ctx.Done() case of their loops has no step here, and both loops go on.
Shutdown ==
  /\ life = "running"
  /\ pending = {}
  /\ life' = "stopping"
  /\ UNCHANGED <<nodes, users, now, issued, tickPc, last, conn, calc, pending>>

\* Run returns once the hooks have run and main ends: the process exits with
\* both goroutines wherever they are.
Exit ==
  /\ life = "stopping"
  /\ life' = "exited"
  /\ tickPc' = "killed"
  /\ conn' = [w \in Workers |-> [conn[w] EXCEPT !.pc = "killed"]]
  /\ UNCHANGED <<nodes, users, now, issued, last, calc, pending>>

NextStop ==
  \/ UserConnect
  \/ UserDisconnect
  \/ NodeStatusEvent
  \/ TickScalingCheck
  \/ TickCleanupIdle
  \/ TickCleanupStuck
  \/ Shutdown
  \/ Exit

\* a tick that has started runs to its end, and the process exits once the
\* hooks have run
SpecStop ==
  /\ Init
  /\ [][NextStop]_vars
  /\ WF_vars(TickCleanupIdle)
  /\ WF_vars(TickCleanupStuck)
  /\ WF_vars(Exit)

\* ------------------------------------- a tick beside the event consumer
\* Provisioner.Start runs the tick in its own goroutine while the subscriber
\* goroutine calls the handlers: every pool call of the tick takes the lock by
\* itself, and a handler can run between any two of them. calc holds the locals
\* of the tick: the calls left in the scale-up loop and the identifier the
\* provision call returned, or the slice a cleanup step is ranging over.
StepScaleUpBegin ==
  /\ tickPc = "idle" /\ calc = NoCalc
  /\ tickPc' = "scaleUp"
  /\ calc' = [op |-> "scaleUp", left |-> ScaleUpCalls(CalculateScaling(nodes, users, now)),
              id |-> "", todo |-> {}]
  /\ UNCHANGED <<nodes, users, now, issued, last, conn, life, pending>>

\* nodeManager.ProvisionNode returns r, one of results
StepProvisionCall(results, track) ==
  /\ tickPc = "scaleUp" /\ calc.left > 0 /\ calc.id = ""
  /\ \E r \in results :
       /\ calc' = IF r = "" THEN [calc EXCEPT !.left = @ - 1] ELSE [calc EXCEPT !.id = r]
       /\ issued' = issued \cup ({r} \ {""})
       /\ pending' = IF track THEN pending \cup ({r} \ {""}) ELSE pending
  /\ UNCHANGED <<nodes, users, now, tickPc, last, conn, life>>

\* nodePool.Add of the booting record
StepProvisionAdd ==
  /\ tickPc = "scaleUp" /\ calc.id # ""
  /\ nodes' = provisionNode(nodes, calc.id, now)
  /\ calc' = [calc EXCEPT !.id = "", !.left = @ - 1]
  /\ UNCHANGED <<users, now, issued, tickPc, last, conn, life, pending>>

StepScaleUpEnd ==
  /\ tickPc = "scaleUp" /\ calc.left = 0 /\ calc.id = ""
  /\ tickPc' = "cleanupIdle"
  /\ calc' = NoCalc
  /\ UNCHANGED <<nodes, users, now, issued, last, conn, life, pending>>

\* idleNodes := p.predictor.GetIdleNodes()
StepIdleSnapshot ==
  /\ tickPc = "cleanupIdle" /\ calc = NoCalc
  /\ \E idleNodes \in GetIdleNodes(nodes, now) :
       calc' = [op |-> "cleanupIdle", left |-> 0, id |-> "", todo |-> idleNodes]
  /\ UNCHANGED <<nodes, users, now, issued, tickPc, last, conn, life, pending>>

\* one round of the loop: TerminateNode, then UpdateStatus when it succeeded
StepIdleTerminate ==
  /\ tickPc = "cleanupIdle" /\ calc # NoCalc
  /\ \E n \in calc.todo, ok \in BOOLEAN :
       /\ nodes' = IF ok THEN UpdateStatus(nodes, n, NodeStatusTerminated, now) ELSE nodes
       /\ calc' = [calc EXCEPT !.todo = @ \ {n}]
  /\ UNCHANGED <<users, now, issued, tickPc, last, conn, life, pending>>

StepIdleEnd ==
  /\ tickPc = "cleanupIdle" /\ calc # NoCalc /\ calc.todo = {}
  /\ tickPc' = "cleanupStuck"
  /\ calc' = NoCalc
  /\ UNCHANGED <<nodes, users, now, issued, last, conn, life, pending>>

\* stuckNodes := p.predictor.GetStuckBootingNodes()
StepStuckSnapshot ==
  /\ tickPc = "cleanupStuck" /\ calc = NoCalc
  /\ calc' = [op |-> "cleanupStuck", left |-> 0, id |-> "",
              todo |-> GetStuckBootingNodes(nodes, now)]
  /\ UNCHANGED <<nodes, users, now, issued, tickPc, last, conn, life, pending>>

\* one round of the loop: TerminateNode, then Remove when it succeeded
StepStuckRemove ==
  /\ tickPc = "cleanupStuck" /\ calc # NoCalc
  /\ \E n \in calc.todo, ok \in BOOLEAN :
       /\ nodes' = IF ok THEN Remove(nodes, n) ELSE nodes
       /\ calc' = [calc EXCEPT !.todo = @ \ {n}]
  /\ UNCHANGED <<users, now, issued, tickPc, last, conn, life, pending>>

StepStuckEnd ==
  /\ tickPc = "cleanupStuck" /\ calc # NoCalc /\ calc.todo = {}
  /\ tickPc' = "idle"
  /\ calc' = NoCalc
  /\ UNCHANGED <<nodes, users, now, issued, last, conn, life, pending>>

RaceProvisionCall == StepProvisionCall(ProvisionNode(issued), FALSE)

\* the handlers, each run whole wherever the tick stands
RaceConnect == \E u \in UserIds : HandleUserConnect(u)

RaceDisconnect == \E u \in UserIds : HandleUserDisconnect(u, FALSE)

RaceNodeStatus == \E n \in NodeIds, status \in EventStatus : HandleNodeStatus(n, status, FALSE)

RaceClock == AdvanceTime(FALSE)

NextRace ==
  \/ StepScaleUpBegin
  \/ RaceProvisionCall
  \/ StepProvisionAdd
  \/ StepScaleUpEnd
  \/ StepIdleSnapshot
  \/ StepIdleTerminate
  \/ StepIdleEnd
  \/ StepStuckSnapshot
  \/ StepStuckRemove
  \/ StepStuckEnd
  \/ RaceConnect
  \/ RaceDisconnect
  \/ RaceNodeStatus
  \/ RaceClock

SpecRace == Init /\ [][NextRace]_vars

\* ------------------------------------------- the tick keeping the minimum
\* No user events: the tick runs for ever beside the node:status ready reports
\* of the nodes it provisioned; every provision call succeeds and a node
\* reports ready before its booting timeout. The code compares a timestamp only
\* with time.Now() minus a timeout, so the passing of time is the ageing of
\* every timestamp against a fixed now, down to OldestTime, which is older
\* than both timeouts.
OldestTime == 0 - ClockStep * MaxClockSteps

Aged(ts) == IF ts - ClockStep < OldestTime THEN OldestTime ELSE ts - ClockStep

LiveTimes == {0 - k * ClockStep : k \in 0..MaxClockSteps}

\* a pool without allocated nodes whose booting nodes are younger than the
\* booting timeout
LivePools ==
  UNION {[S -> {n \in {Node(status, "", c, u) : status \in EventStatus,
                                                 c \in LiveTimes, u \in LiveTimes} :
                  /\ n.CreatedAt <= n.UpdatedAt
                  /\ n.Status = NodeStatusBooting => n.CreatedAt = 0}]
         : S \in SUBSET NodeIds}

InitLive ==
  /\ now = 0
  /\ nodes \in LivePools
  /\ users = NewUserTracker
  /\ issued = DOMAIN nodes
  /\ tickPc = "idle"
  /\ last = Last("init", "", "", Nil, Nil, 0, 0)
  /\ conn = [w \in Workers |-> IdleConn]
  /\ life = "running"
  /\ pending = GetAllByStatus(nodes, NodeStatusBooting)
  /\ calc = NoCalc

\* the identifiers of the nodes that exist: the API returns another one (the
\* record of a terminated node is counted by no step of the tick)
LiveIds == {n \in DOMAIN nodes : nodes[n].Status # NodeStatusTerminated} \cup pending

LiveProvisionCall == StepProvisionCall(NodeIds \ LiveIds, TRUE)

\* node:status{n, ready} of a provisioned node is handled
ReadyReport ==
  \E n \in pending :
    /\ nodes' = NodeStatusPool(nodes, n, NodeStatusReady, now)
    /\ issued' = issued \cup {n}
    /\ pending' = pending \ {n}
    /\ UNCHANGED <<users, now, tickPc, last, conn, life, calc>>

\* time passes once the provisioned nodes have reported
LiveClock ==
  /\ pending = {}
  /\ nodes' = [n \in DOMAIN nodes |->
                 [nodes[n] EXCEPT !.CreatedAt = Aged(@), !.UpdatedAt = Aged(@)]]
  /\ UNCHANGED <<users, now, issued, tickPc, last, conn, life, calc, pending>>

NextLive ==
  \/ StepScaleUpBegin
  \/ LiveProvisionCall
  \/ StepProvisionAdd
  \/ StepScaleUpEnd
  \/ StepIdleSnapshot
  \/ StepIdleTerminate
  \/ StepIdleEnd
  \/ StepStuckSnapshot
  \/ StepStuckRemove
  \/ StepStuckEnd
  \/ ReadyReport
  \/ LiveClock

\* the ticker keeps firing and a tick goes on to its end, the subscriber
\* handles every report it received, time passes
SpecLive ==
  /\ InitLive
  /\ [][NextLive]_vars
  /\ WF_vars(StepScaleUpBegin)
  /\ WF_vars(LiveProvisionCall)
  /\ WF_vars(StepProvisionAdd)
  /\ WF_vars(StepScaleUpEnd)
  /\ WF_vars(StepIdleSnapshot)
  /\ WF_vars(StepIdleTerminate)
  /\ WF_vars(StepIdleEnd)
  /\ WF_vars(StepStuckSnapshot)
  /\ WF_vars(StepStuckRemove)
  /\ WF_vars(StepStuckEnd)
  /\ WF_vars(ReadyReport)
  /\ WF_vars(LiveClock)

\* ------------------------------------------------ a reader of a node record
\* Get returns the pointer held by the map; GetNodeAllocation and the status
\* endpoint then read Status and UserID through it without the pool lock, one
\* field after the other, while the handlers go on writing the record.
ReaderGet ==
  /\ calc = NoCalc
  /\ \E n \in DOMAIN nodes :
       calc' = [op |-> "Get", id |-> n, pc |-> "readStatus", status |-> "", user |-> ""]
  /\ UNCHANGED <<nodes, users, now, issued, tickPc, last, conn, life, pending>>

ReaderReadStatus ==
  /\ calc.op = "Get" /\ calc.pc = "readStatus"
  /\ calc' = [calc EXCEPT !.status = nodes[calc.id].Status, !.pc = "readUserID"]
  /\ UNCHANGED <<nodes, users, now, issued, tickPc, last, conn, life, pending>>

ReaderReadUserID ==
  /\ calc.op = "Get" /\ calc.pc = "readUserID"
  /\ calc' = [calc EXCEPT !.user = nodes[calc.id].UserID, !.pc = "done"]
  /\ UNCHANGED <<nodes, users, now, issued, tickPc, last, conn, life, pending>>

ReaderReturn ==
  /\ calc.op = "Get" /\ calc.pc = "done"
  /\ calc' = NoCalc
  /\ UNCHANGED <<nodes, users, now, issued, tickPc, last, conn, life, pending>>

\* a node reports ready for the first time
NewNodeReady ==
  /\ Quiescent
  /\ \E n \in NodeIds : n \notin DOMAIN nodes /\ HandleNodeStatus(n, NodeStatusReady, TRUE)

\* The writers are connects and disconnects (AllocateNode, DeallocateNode) on
\* nodes that reported ready once.
NextRead ==
  \/ ReaderGet
  \/ ReaderReadStatus
  \/ ReaderReadUserID
  \/ ReaderReturn
  \/ NewNodeReady
  \/ UserConnect
  \/ UserDisconnect

SpecRead == Init /\ [][NextRead]_vars

\* ---------------------------------------------- the scaling decision by itself
\* CalculateScaling on counts and a configuration of its own: the counts the
\* pool and the tracker can hold, min_ready_nodes and max_ready_nodes positive
\* as config.setDefaults leaves them (neither is compared with the other).
ScalingInputs ==
  [readyCount : 0..MaxCount, bootingCount : 0..MaxCount, allocatedCount : 0..MaxCount,
   demand : 0..MaxCount, minReady : 1..MaxConfig, maxReady : 1..MaxConfig]

InitScaling ==
  /\ nodes = NewNodePool
  /\ users = NewUserTracker
  /\ now = 0
  /\ issued = {}
  /\ tickPc = "idle"
  /\ last = Last("init", "", "", Nil, Nil, 0, 0)
  /\ conn = [w \in Workers |-> IdleConn]
  /\ life = "running"
  /\ pending = {}
  /\ calc \in {[op |-> "CalculateScaling", in |-> i, done |-> FALSE,
                out |-> ScalingDecision(FALSE, FALSE, 0, "")] : i \in ScalingInputs}

ApplyCalculateScaling ==
  /\ calc.op = "CalculateScaling" /\ ~calc.done
  /\ calc' = [calc EXCEPT !.done = TRUE,
                          !.out = ScalingFor(calc.in.readyCount, calc.in.bootingCount,
                                             calc.in.allocatedCount, calc.in.demand,
                                             calc.in.minReady, calc.in.maxReady)]
  /\ UNCHANGED <<nodes, users, now, issued, tickPc, last, conn, life, pending>>

\* performScalingCheck under the configuration of the call under study, when
\* the counts and the demand of that call are those of the pool and the tracker
ProvisionForDecision ==
  /\ calc.op = "CalculateScaling" /\ calc.done
  /\ calc.in.readyCount = CountByStatus(nodes, NodeStatusReady)
  /\ calc.in.bootingCount = CountByStatus(nodes, NodeStatusBooting)
  /\ calc.in.allocatedCount = CountByStatus(nodes, NodeStatusAllocated)
  /\ calc.in.demand = Demand(users, now)
  /\ performScalingCheckFor(calc.out, TRUE)

NextScaling == ApplyCalculateScaling \/ ProvisionForDecision

SpecScaling == InitScaling /\ [][NextScaling]_vars

\* ------------------------------------------------- a tick on a pool by itself
\* The pools node:status events build: every node booting, ready or terminated,
\* unbound, created and last updated at clock readings up to t.
DrawnNodes(t) ==
  {n \in {Node(status, "", c, u) : status \in EventStatus, c \in 0..t, u \in 0..t} :
     n.CreatedAt <= n.UpdatedAt}

DrawnPools(t) == UNION {[S -> DrawnNodes(t)] : S \in SUBSET NodeIds}

InitTick ==
  /\ now \in 0..MaxDrawTime
  /\ nodes \in DrawnPools(now)
  /\ users = NewUserTracker
  /\ issued = DOMAIN nodes
  /\ tickPc = "idle"
  /\ last = Last("init", "", "", Nil, Nil, 0, 0)
  /\ conn = [w \in Workers |-> IdleConn]
  /\ life = "running"
  /\ pending = {}
  /\ calc = NoCalc

NextTick == TickScalingCheck \/ TickCleanupIdle \/ TickCleanupStuck

SpecTick == InitTick /\ [][NextTick]_vars

\* ------------------------------------------------ the demand of a tracker by itself
\* The states of a user RecordActivity, MarkConnected and MarkDisconnected
\* build: never active (created by a connect) or active c times, last at la.
DrawnUserStates(t) ==
  {UserState(ZeroTime, 0, FALSE, "")}
    \cup {UserState(la, c, FALSE, "") : la \in 0..t, c \in 1..MaxDrawCount}
    \cup {UserState(ZeroTime, 0, TRUE, n) : n \in NodeIds}
    \cup UNION {{UserState(la, c, TRUE, n) : la \in 0..t, c \in 1..MaxDrawCount} : n \in NodeIds}

DrawnTrackers(t) ==
  {us \in UNION {[S -> DrawnUserStates(t)] : S \in SUBSET UserIds} :
     \A u \in DOMAIN us : \A v \in (DOMAIN us) \ {u} :
       (us[u].IsConnected /\ us[v].IsConnected) => us[u].AllocatedNodeID # us[v].AllocatedNodeID}

\* the pool that goes with a tracker: the node of each connected user, allocated to it
PoolOf(us) ==
  [n \in {us[u].AllocatedNodeID : u \in {v \in DOMAIN us : us[v].IsConnected}} |->
     Node(NodeStatusAllocated,
          CHOOSE u \in DOMAIN us : us[u].IsConnected /\ us[u].AllocatedNodeID = n, 0, 0)]

InitDemand ==
  /\ now \in 0..MaxDrawTime
  /\ users \in DrawnTrackers(now)
  /\ nodes = PoolOf(users)
  /\ issued = DOMAIN nodes
  /\ tickPc = "idle"
  /\ last = Last("init", "", "", Nil, Nil, 0, 0)
  /\ conn = [w \in Workers |-> IdleConn]
  /\ life = "running"
  /\ pending = {}
  /\ calc = [op |-> "Demand", done |-> FALSE, out |-> 0]

ApplyDemand ==
  /\ calc.op = "Demand" /\ ~calc.done
  /\ calc' = [calc EXCEPT !.done = TRUE, !.out = Demand(users, now)]
  /\ UNCHANGED <<nodes, users, now, issued, tickPc, last, conn, life, pending>>

SpecDemand == InitDemand /\ [][ApplyDemand]_vars

\* ------------------------------------------------ unvalidated bus payloads
\* NodeStatusEvent.Status is a string off the bus: the documented values, the
\* pool's own fourth status, or any other text
PayloadStatus == NodeStatus \cup {"stopped"}

AnyPayloadNodeStatus ==
  Quiescent /\ \E n \in NodeIds, status \in PayloadStatus : HandleNodeStatus(n, status, TRUE)

NextBus == AnyPayloadNodeStatus \/ UserConnect \/ UserDisconnect

SpecBus == Init /\ [][NextBus]_vars

\* ================================================================== claims
\* nodes of the pool with status allocated and bound to user u
AllocatedTo(u) ==
  {n \in DOMAIN nodes : nodes[n].Status = NodeStatusAllocated /\ nodes[n].UserID = u}

Connected(u) == u \in DOMAIN users /\ users[u].IsConnected

ReadyCount == Cardinality({n \in DOMAIN nodes : nodes[n].Status = NodeStatusReady})

LiveCount ==
  Cardinality({n \in DOMAIN nodes :
                 nodes[n].Status \in {NodeStatusReady, NodeStatusBooting, NodeStatusAllocated}})

\* C1: at most one allocation per user. Whenever no handler is in the middle of
\* an operation, each user has at most one node with status allocated bound to
\* it, and the tracker's allocated_node_id of that user names that node; also
\* when two connect handlers for the same user ran concurrently.
C1_AtMostOneAllocationPerUser ==
  Quiescent =>
    \A u \in UserIds :
      /\ Cardinality(AllocatedTo(u)) <= 1
      /\ \A n \in AllocatedTo(u) : u \in DOMAIN users /\ users[u].AllocatedNodeID = n

\* C2: at every quiescent point every connected user has a node in the pool
\* whose id is the user's allocated_node_id, with status allocated and bound to
\* that user.
C2_ConnectedUserHasAllocatedNode ==
  Quiescent =>
    \A u \in DOMAIN users :
      users[u].IsConnected =>
        /\ users[u].AllocatedNodeID \in DOMAIN nodes
        /\ nodes[users[u].AllocatedNodeID].Status = NodeStatusAllocated
        /\ nodes[users[u].AllocatedNodeID].UserID = u

\* C3: at every quiescent point every node has a non-empty user_id if and only
\* if its status is allocated.
C3_UserIdIffAllocated ==
  Quiescent =>
    \A n \in DOMAIN nodes : (nodes[n].UserID # "") <=> (nodes[n].Status = NodeStatusAllocated)

\* C4: no transition back from terminated: a node of the pool with status
\* terminated has status terminated after every step that keeps it in the pool.
C4_NoTransitionBackFromTerminated ==
  [][\A n \in DOMAIN nodes :
       (nodes[n].Status = NodeStatusTerminated /\ n \in DOMAIN nodes')
         => nodes'[n].Status = NodeStatusTerminated]_vars

AllowedTransitions ==
  {<<NodeStatusBooting, NodeStatusReady>>, <<NodeStatusReady, NodeStatusAllocated>>,
   <<NodeStatusAllocated, NodeStatusReady>>, <<NodeStatusBooting, NodeStatusTerminated>>,
   <<NodeStatusReady, NodeStatusTerminated>>, <<NodeStatusAllocated, NodeStatusTerminated>>}

\* C5: every status change of a node that is in the pool before and after a step
\* is booting->ready, ready->allocated, allocated->ready or
\* {booting, ready, allocated}->terminated.
C5_StatusTransitionsFormTheDag ==
  [][\A n \in (DOMAIN nodes) \cap (DOMAIN nodes') :
       nodes[n].Status # nodes'[n].Status
         => <<nodes[n].Status, nodes'[n].Status>> \in AllowedTransitions]_vars

\* C6: when a reconciliation tick has completed, ready + booting + allocated is
\* at most max_ready_nodes.
C6_TotalWithinMaxAfterTick ==
  (tickPc = "idle" /\ last.op = "cleanupStuckNodes") => LiveCount <= MaxReadyNodes

C8_OnlyFailureIsNoReadyNode ==
  \A w \in Workers : conn[w].err \in {Nil, ErrAlreadyAllocated, ErrNoReadyNode}

\* C9: cold miss. A connect for a user that is not connected, handled while the
\* pool has no ready node, returns ErrNoReadyNode and makes exactly one
\* provision call; the user stays as it was (not connected), no node becomes
\* allocated, and the pool is unchanged when the call fails and gains exactly
\* one node, booting and unbound, when it succeeds.
C9_ColdMissProvisionsOnce ==
  [][\A u \in UserIds :
       ( /\ last'.op = "connect" /\ last'.user = u
         /\ ~Connected(u)
         /\ ReadyCount = 0 )
       => /\ last'.err = ErrNoReadyNode
          /\ last'.prov = 1
          /\ users' = users
          /\ \A n \in DOMAIN nodes : n \in DOMAIN nodes' /\ nodes'[n] = nodes[n]
          /\ IF issued' = issued
             THEN DOMAIN nodes' = DOMAIN nodes
             ELSE \E n \in (DOMAIN nodes') \ (DOMAIN nodes) :
                    /\ DOMAIN nodes' = (DOMAIN nodes) \cup {n}
                    /\ nodes'[n].Status = NodeStatusBooting
                    /\ nodes'[n].UserID = ""]_vars

\* a cold miss has just provisioned a node: it is booting and the user is not connected
C9_Witness ==
  /\ last.op = "connect" /\ last.err = ErrNoReadyNode /\ last.prov = 1
  /\ ~Connected(last.user)
  /\ \E n \in DOMAIN nodes :
       nodes[n].Status = NodeStatusBooting /\ nodes[n].CreatedAt = now /\ nodes[n].UserID = ""

\* C10: double connect. A connect for a user that is connected with a non-empty
\* bound node returns that node id with ErrAlreadyAllocated, the handler returns
\* nil, and the pool and the tracker are unchanged; and right after a successful
\* connect exactly one node is allocated to the user, so a second connect leaves
\* exactly one.
C10_DoubleConnect ==
  /\ [](\A u \in UserIds :
          (last.op = "connect" /\ last.user = u /\ last.err \in {Nil, ErrAlreadyAllocated}
             /\ Quiescent)
            => (Connected(u) /\ Cardinality(AllocatedTo(u)) <= 1
                /\ (last.err = Nil => AllocatedTo(u) = {last.id})))
  /\ [][\A u \in UserIds :
          ( /\ last'.op = "connect" /\ last'.user = u
            /\ Connected(u) /\ users[u].AllocatedNodeID # "" )
          => /\ last'.err = ErrAlreadyAllocated
             /\ last'.id = users[u].AllocatedNodeID
             /\ last'.ret = Nil
             /\ last'.prov = 0
             /\ nodes' = nodes
             /\ users' = users]_vars

\* a second connect has just returned ErrAlreadyAllocated for a user whose node
\* is allocated to it
C10_Witness ==
  /\ last.op = "connect" /\ last.err = ErrAlreadyAllocated /\ last.ret = Nil
  /\ AllocatedTo(last.user) = {last.id}

\* C11: AllocateNode(id, user) returns true if and only if the node is in the
\* pool with status ready at the call; when it returns true exactly that node
\* becomes allocated and bound to user and no other node changes; when it
\* returns false the pool is unchanged; and a call never returns true on a node
\* for which a concurrent call has already returned true.
C11_AllocateNodeAtomic ==
  [][\A w \in Workers :
       (conn[w].pc = "allocateNode" /\ conn'[w].pc # "allocateNode") =>
         LET id == conn[w].node
             wasReady == id \in DOMAIN nodes /\ nodes[id].Status = NodeStatusReady
             returnedTrue == conn'[w].pc = "markConnected"
         IN  /\ returnedTrue <=> wasReady
             /\ returnedTrue =>
                  /\ DOMAIN nodes' = DOMAIN nodes
                  /\ nodes'[id].Status = NodeStatusAllocated
                  /\ nodes'[id].UserID = conn[w].user
                  /\ \A m \in (DOMAIN nodes) \ {id} : nodes'[m] = nodes[m]
                  /\ \A v \in Workers \ {w} :
                       ~(conn[v].pc = "markConnected" /\ conn[v].node = id)
             /\ ~returnedTrue => (nodes' = nodes /\ conn'[w].err = ErrNodeNotReady)]_vars

\* two callers picked the same ready node: AllocateNode returned true to one,
\* which has not returned yet, and false to the other
C11_Witness ==
  \E w \in Workers : \E v \in Workers \ {w} :
    /\ conn[w].pc = "markConnected"
    /\ nodes[conn[w].node].Status = NodeStatusAllocated
    /\ nodes[conn[w].node].UserID = conn[w].user
    /\ conn[v].pc = "idle" /\ conn[v].err = ErrNodeNotReady

\* C12: two callers that have both received a node from GetReadyNode and have
\* not yet called AllocateNode hold different nodes.
C12_GetReadyNodeDistinct ==
  \A w \in Workers : \A v \in Workers \ {w} :
    (conn[w].pc = "allocateNode" /\ conn[v].pc = "allocateNode")
      => conn[w].node # conn[v].node

\* C13: right after a connect that moved a user from not connected to
\* connected, the user's activity count is zero.
C13_ConnectResetsActivityCount ==
  (last.op = "connect" /\ last.err = Nil) => users[last.user].ActivityCount = 0

\* C14: handling a node:status event, whatever status string it carries, leaves
\* no node with status allocated that was not allocated before and no node with
\* a status outside {booting, ready, allocated, terminated}.
C14_BusNeverSetsAllocated ==
  [][last'.op = "nodeStatus" =>
       \A n \in DOMAIN nodes' :
         /\ nodes'[n].Status \in NodeStatus
         /\ nodes'[n].Status = NodeStatusAllocated
              => (n \in DOMAIN nodes /\ nodes[n].Status = NodeStatusAllocated)]_vars

\* C15: a node record leaves the pool only in the stuck-booting step of a tick,
\* as a booting node past booting_node_timeout for which a terminate call was
\* made; the idle-termination step keeps every record and changes a record only
\* to status terminated; no event handler removes a node.
C15_RemovedOnlyByStuckStep ==
  [][/\ ~((DOMAIN nodes) \subseteq (DOMAIN nodes')) =>
          /\ tickPc = "cleanupStuck"
          /\ last'.op = "cleanupStuckNodes"
          /\ last'.term >= Cardinality((DOMAIN nodes) \ (DOMAIN nodes'))
          /\ \A n \in (DOMAIN nodes) \ (DOMAIN nodes') :
               /\ nodes[n].Status = NodeStatusBooting
               /\ nodes[n].CreatedAt < now - BootingNodeTimeout
     /\ tickPc = "cleanupIdle" =>
          /\ DOMAIN nodes' = DOMAIN nodes
          /\ \A n \in DOMAIN nodes :
               nodes'[n] # nodes[n] => nodes'[n].Status = NodeStatusTerminated]_vars

\* the stuck-booting step has just removed a node the API had handed out, while
\* a terminated node is still in the pool
C15_Witness ==
  /\ last.op = "cleanupStuckNodes" /\ last.term >= 1
  /\ \E n \in issued : n \notin DOMAIN nodes
  /\ \E m \in DOMAIN nodes : nodes[m].Status = NodeStatusTerminated

\* users the predictor counts as demand at the current clock reading
LikelyNow ==
  {u \in DOMAIN users : /\ ~users[u].IsConnected
                        /\ users[u].LastActivityTime > now - ActivityWindow
                        /\ users[u].ActivityCount >= ActivityThreshold}

\* C16: the idle-termination step of a tick moves a ready node to terminated
\* only if the node has been idle longer than idle_termination_timeout, no
\* predicted demand exists (D = 0) and at least min_ready_nodes ready nodes
\* are left.
C16_ScaleDownOnlyWithoutDemand ==
  [][tickPc = "cleanupIdle" =>
       \A n \in (DOMAIN nodes) \cap (DOMAIN nodes') :
         (nodes[n].Status = NodeStatusReady /\ nodes'[n].Status = NodeStatusTerminated) =>
           /\ nodes[n].UpdatedAt < now - IdleTerminationTimeout
           /\ LikelyNow = {}
           /\ Cardinality({m \in DOMAIN nodes' : nodes'[m].Status = NodeStatusReady})
                >= MinReadyNodes]_vars

\* the number of nodes of pool p per status
StatusCounts(p) ==
  [st \in NodeStatus |-> Cardinality({n \in DOMAIN p : p[n].Status = st})]

\* C17 (as stated): Connect(u) followed by Disconnect(u), with a ready node
\* available and nothing in between, returns the pool to its prior counts per
\* status and leaves u not connected with an empty allocated_node_id.
C17_ConnectDisconnectRestoresCounts ==
  [][(last'.op = "connectDisconnect" /\ ReadyCount >= 1) =>
       /\ StatusCounts(nodes') = StatusCounts(nodes)
       /\ last'.user \in DOMAIN users'
       /\ ~users'[last'.user].IsConnected
       /\ users'[last'.user].AllocatedNodeID = ""]_vars

\* C17 (amended): the same for a user that is not connected before the Connect.
C17_ConnectDisconnectRestoresCountsIfNew ==
  [][(last'.op = "connectDisconnect" /\ ReadyCount >= 1 /\ ~Connected(last'.user)) =>
       /\ last'.err = Nil /\ last'.ret = Nil
       /\ StatusCounts(nodes') = StatusCounts(nodes)
       /\ last'.user \in DOMAIN users'
       /\ ~users'[last'.user].IsConnected
       /\ users'[last'.user].AllocatedNodeID = ""]_vars

\* a connect and a disconnect of a user have just run back to back: the node
\* that was allocated is ready and unbound again and the user is not connected
C17_Witness ==
  /\ last.op = "connectDisconnect" /\ last.err = Nil /\ last.ret = Nil
  /\ last.id \in DOMAIN nodes
  /\ nodes[last.id].Status = NodeStatusReady /\ nodes[last.id].UserID = ""
  /\ nodes[last.id].UpdatedAt = now
  /\ last.user \in DOMAIN users /\ ~users[last.user].IsConnected

\* C18: after a successful Disconnect(u) the user is not connected, and a
\* Disconnect for a user that is unknown or not connected (so also a second
\* Disconnect) returns ErrUserNotFound and changes neither the pool nor the
\* tracker.
C18_DuplicateDisconnect ==
  /\ []((last.op = "disconnect" /\ last.err = Nil) => ~Connected(last.user))
  /\ [][\A u \in UserIds :
          (last'.op = "disconnect" /\ last'.user = u /\ ~Connected(u))
            => /\ last'.err = ErrUserNotFound
               /\ last'.ret = ErrUserNotFound
               /\ nodes' = nodes
               /\ users' = users]_vars

\* a disconnect has just returned ErrUserNotFound for a user the tracker knows
\* only from an earlier connect, already undone by an earlier disconnect
C18_Witness ==
  /\ last.op = "disconnect" /\ last.err = ErrUserNotFound
  /\ last.user \in DOMAIN users
  /\ users[last.user].LastActivityTime = ZeroTime
  /\ ~users[last.user].IsConnected /\ users[last.user].AllocatedNodeID = ""

\* C19: handling the same NodeStatusEvent{n, s} twice in a row leaves the pool
\* as handling it once does: the same node ids and the same status, bound user
\* and timestamps for every node.
C19_DuplicateNodeStatus ==
  [][last'.op = "nodeStatusTwice" =>
       nodes' = NodeStatusPool(nodes, last'.id, nodes'[last'.id].Status, now)]_vars

\* booting nodes past booting_node_timeout at the current clock reading
StuckNow ==
  {n \in DOMAIN nodes : /\ nodes[n].Status = NodeStatusBooting
                        /\ nodes[n].CreatedAt < now - BootingNodeTimeout}

\* a step of a tick that started with D = 0 and R = min_ready_nodes (the steps
\* before it in the tick then made no call and no change)
StepOfTickAtMin ==
  /\ tickPc' # tickPc
  /\ LikelyNow = {}
  /\ ReadyCount = MinReadyNodes
  /\ tickPc = "cleanupStuck" => last.term = 0

\* C20 (as stated): a tick that starts with D = 0 and R = min_ready_nodes
\* issues no provision and no terminate call and leaves the pool unchanged.
C20_TickAtMinMakesNoChanges ==
  [][StepOfTickAtMin => (nodes' = nodes /\ last'.prov = 0 /\ last'.term = 0)]_vars

\* C20 (amended): the same when in addition no booting node is older than
\* booting_node_timeout at the start of the tick.
C20_TickAtMinNothingStuckMakesNoChanges ==
  [][(StepOfTickAtMin /\ StuckNow = {})
       => (nodes' = nodes /\ last'.prov = 0 /\ last'.term = 0)]_vars

\* a tick has just completed without a call although a ready node is idle past
\* idle_termination_timeout: it is the min_ready_nodes-th ready node
C20_Witness ==
  /\ tickPc = "idle" /\ last.op = "cleanupStuckNodes" /\ last.term = 0
  /\ LikelyNow = {} /\ ReadyCount = MinReadyNodes /\ StuckNow = {}
  /\ \E n \in DOMAIN nodes :
       nodes[n].Status = NodeStatusReady /\ nodes[n].UpdatedAt < now - IdleTerminationTimeout

\* a CalculateScaling call under study has returned
ScalingDone == calc.op = "CalculateScaling" /\ calc.done

\* R + B + A of the call under study
CalcTotal == calc.in.readyCount + calc.in.bootingCount + calc.in.allocatedCount

\* C21: for counts with R + B + A = max_ready_nodes and every demand D,
\* CalculateScaling returns scale_up = false and the tick makes no provision
\* call.
C21_NoScaleUpAtMax ==
  (ScalingDone /\ CalcTotal = calc.in.maxReady) =>
    (~calc.out.ShouldScaleUp /\ ScaleUpCalls(calc.out) = 0)

\* at R + B + A = max_ready_nodes a demand above ready + booting was capped to
\* a target of zero and the scale-up cleared
C21_Witness ==
  /\ ScalingDone /\ CalcTotal = calc.in.maxReady
  /\ calc.in.demand > calc.in.readyCount + calc.in.bootingCount
  /\ ~calc.out.ShouldScaleUp /\ calc.out.TargetNodes = 0

\* C22: every decision CalculateScaling returns has target_delta >= 0.
C22_TargetNonNegative == ScalingDone => calc.out.TargetNodes >= 0

\* the reference rule of the scale-up: the uncapped need, then the cap
RefNeed ==
  LET C == calc.in.readyCount + calc.in.bootingCount
  IN  IF calc.in.demand > C THEN calc.in.demand - C
      ELSE IF calc.in.readyCount < calc.in.minReady /\ C < calc.in.minReady
      THEN calc.in.minReady - C
      ELSE 0

RefTarget ==
  IF RefNeed > 0 /\ CalcTotal + RefNeed > calc.in.maxReady
  THEN calc.in.maxReady - CalcTotal
  ELSE RefNeed

\* C24: CalculateScaling sets scale_up exactly as the reference rule does
\* (a need exists and the capped target is positive); whenever scale_up is true
\* the target is the capped need, at least 1, and R + B + A + target_delta is
\* at most max_ready_nodes.
C24_ScaleUpAsReference ==
  ScalingDone =>
    /\ calc.out.ShouldScaleUp <=> (RefNeed > 0 /\ RefTarget > 0)
    /\ calc.out.ShouldScaleUp =>
         /\ calc.out.TargetNodes = RefTarget
         /\ calc.out.TargetNodes >= 1
         /\ CalcTotal + calc.out.TargetNodes <= calc.in.maxReady

\* a need above the room left under max_ready_nodes was capped to that room
C24_Witness ==
  /\ ScalingDone /\ calc.out.ShouldScaleUp
  /\ RefNeed > calc.out.TargetNodes
  /\ CalcTotal + calc.out.TargetNodes = calc.in.maxReady

C26_ProvisionCallsPerDecision ==
  [][(ScalingDone /\ last'.op = "performScalingCheck" /\ tickPc = "idle") =>
       /\ last'.prov = IF calc.out.ShouldScaleUp THEN calc.out.TargetNodes ELSE 0
       /\ Cardinality((DOMAIN nodes') \ (DOMAIN nodes)) <= last'.prov
       /\ (DOMAIN nodes') \ (DOMAIN nodes) = issued' \ issued
       /\ \A n \in DOMAIN nodes : n \in DOMAIN nodes' /\ nodes'[n] = nodes[n]
       /\ \A n \in (DOMAIN nodes') \ (DOMAIN nodes) :
            /\ nodes'[n].Status = NodeStatusBooting
            /\ nodes'[n].UserID = ""]_vars

\* a tick made three provision calls for a target of three: one failed, the
\* other two each inserted a booting node
C26_Witness ==
  /\ ScalingDone /\ calc.out.ShouldScaleUp /\ calc.out.TargetNodes = 3
  /\ last.op = "performScalingCheck" /\ last.prov = 3
  /\ Cardinality(DOMAIN nodes) = 2
  /\ \A n \in DOMAIN nodes : nodes[n].Status = NodeStatusBooting /\ nodes[n].UserID = ""

\* the ready nodes past idle_termination_timeout at the current clock reading
IdleNow ==
  {n \in DOMAIN nodes : /\ nodes[n].Status = NodeStatusReady
                        /\ nodes[n].UpdatedAt < now - IdleTerminationTimeout}

\* max(0, R - min_ready_nodes) of the current pool
RoomAboveMin == IF ReadyCount - MinReadyNodes > 0 THEN ReadyCount - MinReadyNodes ELSE 0

\* C27: in the idle and stuck steps of a tick a terminate call is made for
\* every node the step selected, whatever the earlier calls returned; a node
\* whose call failed stays in the pool exactly as it was: after the idle step
\* every node is unchanged or terminated, after the stuck step every node is
\* unchanged or gone.
C27_FailedTerminateLeavesNode ==
  [][/\ tickPc = "cleanupIdle" =>
          /\ last'.term = IF Cardinality(IdleNow) > RoomAboveMin
                          THEN RoomAboveMin ELSE Cardinality(IdleNow)
          /\ DOMAIN nodes' = DOMAIN nodes
          /\ \A n \in DOMAIN nodes :
               \/ nodes'[n] = nodes[n]
               \/ /\ n \in IdleNow
                  /\ nodes'[n] = [nodes[n] EXCEPT !.Status = NodeStatusTerminated,
                                                  !.UpdatedAt = now]
     /\ tickPc = "cleanupStuck" =>
          /\ last'.term = Cardinality(StuckNow)
          /\ \A n \in DOMAIN nodes :
               \/ n \in DOMAIN nodes' /\ nodes'[n] = nodes[n]
               \/ n \in StuckNow /\ n \notin DOMAIN nodes']_vars

\* the stuck step made two terminate calls: one failed and its node is still
\* booting in the pool, the other succeeded and its node is gone
C27_Witness ==
  /\ last.op = "cleanupStuckNodes" /\ last.term = 2
  /\ Cardinality(DOMAIN nodes) = 1
  /\ Cardinality(StuckNow) = 1

\* C28: GetIdleNodes returns only ready nodes whose updated_at is strictly
\* earlier than now - idle_termination_timeout (a node exactly at the cutoff is
\* not returned) and at most max(0, R - min_ready_nodes) of them.
C28_GetIdleNodesStrictAndCapped ==
  \A S \in GetIdleNodes(nodes, now) :
    /\ \A n \in S : /\ n \in DOMAIN nodes
                    /\ nodes[n].Status = NodeStatusReady
                    /\ nodes[n].UpdatedAt < now - IdleTerminationTimeout
                    /\ nodes[n].UpdatedAt # now - IdleTerminationTimeout
    /\ Cardinality(S) <= RoomAboveMin

\* the idle step has just terminated the one idle node and left ready a node
\* whose updated_at is exactly at the cutoff
C28_Witness ==
  /\ last.op = "cleanupIdleNodes" /\ last.term = 1
  /\ \E n \in DOMAIN nodes : /\ nodes[n].Status = NodeStatusReady
                             /\ nodes[n].UpdatedAt = now - IdleTerminationTimeout
  /\ \E m \in DOMAIN nodes : /\ nodes[m].Status = NodeStatusTerminated
                             /\ nodes[m].UpdatedAt = now
                             /\ nodes[m].CreatedAt < now - IdleTerminationTimeout

\* C29: the stuck step of a tick makes a terminate call for every booting node
\* whose created_at is earlier than now - booting_node_timeout, however many
\* there are; only such nodes leave the pool, and every other node, a younger
\* booting node included, stays as it was.
C29_EveryStuckNodeTerminated ==
  [][tickPc = "cleanupStuck" =>
       /\ last'.term = Cardinality({n \in DOMAIN nodes :
                                      /\ nodes[n].Status = NodeStatusBooting
                                      /\ nodes[n].CreatedAt < now - BootingNodeTimeout})
       /\ \A n \in DOMAIN nodes :
            (nodes[n].Status # NodeStatusBooting
               \/ nodes[n].CreatedAt >= now - BootingNodeTimeout)
              => (n \in DOMAIN nodes' /\ nodes'[n] = nodes[n])
       /\ \A n \in DOMAIN nodes' : n \in DOMAIN nodes /\ nodes'[n] = nodes[n]]_vars

\* the stuck step has just made two terminate calls, both succeeded and both
\* nodes are gone
C29_Witness ==
  /\ last.op = "cleanupStuckNodes" /\ last.term = 2
  /\ issued = NodeIds
  /\ DOMAIN nodes = {}

C23_LoopsReturnOnShutdown ==
  (life = "stopping") ~> (tickPc = "returned" /\ conn[Consumer].pc = "returned")

\* C31: a caller holding the result of Get(id) reads a consistent set of
\* fields while AllocateNode and DeallocateNode run on the node: never status
\* allocated with an empty user_id, never another status with a non-empty
\* user_id.
C31_GetReadsConsistentFields ==
  (calc.op = "Get" /\ calc.pc = "done") =>
    ((calc.user # "") <=> (calc.status = NodeStatusAllocated))

\* C32: under sequential event handling no two distinct connected users have
\* the same allocated_node_id.
C32_NoSharedNode ==
  Quiescent =>
    \A u \in DOMAIN users : \A v \in (DOMAIN users) \ {u} :
      (users[u].IsConnected /\ users[v].IsConnected)
        => users[u].AllocatedNodeID # users[v].AllocatedNodeID

C33_IdleTerminatesOnlyReady ==
  [][(tickPc = "cleanupIdle" /\ calc # NoCalc /\ calc' # calc) =>
       \A n \in DOMAIN nodes :
         (nodes'[n].Status = NodeStatusTerminated /\ nodes'[n] # nodes[n])
           => nodes[n].Status = NodeStatusReady]_vars

\* C34: the stuck-booting step of a tick removes a node only if the node still
\* has status booting when it is removed, whatever the handlers did since the
\* GetStuckBootingNodes snapshot.
C34_StuckRemovesOnlyBooting ==
  [][(tickPc = "cleanupStuck" /\ calc # NoCalc /\ calc' # calc) =>
       \A n \in (DOMAIN nodes) \ DOMAIN nodes' : nodes[n].Status = NodeStatusBooting]_vars

\* C35: the Add that follows a successful provision call never overwrites a
\* record already in the pool: a node that reported ready (and was perhaps
\* allocated) since the call returned keeps its status and its user.
C35_AddNeverOverwrites ==
  [][(tickPc = "scaleUp" /\ calc.id # "" /\ calc'.id = "" /\ calc.id \in DOMAIN nodes) =>
       /\ nodes'[calc.id].Status = nodes[calc.id].Status
       /\ nodes'[calc.id].UserID = nodes[calc.id].UserID]_vars

\* C37: with no allocated nodes and no user events, every provision call
\* succeeding and every provisioned node reporting ready before the booting
\* timeout, the ticks bring the pool to a state with at least MinReadyNodes
\* ready nodes and keep it there.
C37_MinimumEventuallyHeld == <>[](ReadyCount >= MinReadyNodes)
====
